---- MODULE Spec2Model ----
(***************************************************************************)
(* wssocks: a SOCKS5 proxy spoken over a WebSocket (src/lib.rs).           *)
(*                                                                         *)
(* One session = one run of handle_socket over one WebSocket.  The model   *)
(* follows the function from await point to await point: the two           *)
(* handshake receives, the checks between them, every reply that is sent,  *)
(* the TCP connect and the relay (copy_bidirectional over the              *)
(* WebSocketConnection adapter).  A Rust panic (slice index out of range,  *)
(* unwrap of an Err, put_slice past the capacity) unwinds the session      *)
(* task: the model records it as pc = "panicked", distinct from a return   *)
(* (pc = "done").                                                          *)
(***************************************************************************)
EXTENDS Integers, Sequences, FiniteSets, TLC

VARIABLES
    pc,         \* position of handle_socket
    buf,        \* the local `buf`: the last binary message received in the handshake
    rcvd,       \* what each completed socket.recv() of the handshake yielded (its kind)
    sent,       \* messages handed to socket.send in the handshake, with their result
    addr,       \* the local `addr` (target of TcpStream::connect), or NoAddr
    connects,   \* the targets TcpStream::connect was called with, in order
    socket,     \* the WebSocket: "open" | "closed" (poll_close done) | "dropped"
    outbound,   \* the TcpStream: "none" | "open" | "dropped"
    a2b,        \* relay direction channel -> TCP: "idle" | "running" | "done" | "failed"
    b2a,        \* relay direction TCP -> channel: "idle" | "running" | "done" | "failed"
    lastItem,   \* relay: the kind of the last item poll_next yielded to poll_read, or "-"
    fromWs,     \* relay: payloads of the binary messages poll_read received, in order
    toTcp,      \* relay: bytes written to the TcpStream, in order
    fromTcp,    \* relay: bytes read from the TcpStream, in order
    tcpBuf,     \* relay: bytes read from the TcpStream and not yet accepted by poll_write
    relayOut,   \* relay: binary messages queued on the WebSocket by poll_write
    suspended,  \* relay: poll_write found the sink not ready and returned Pending
    steps       \* relay: number of relay I/O events so far (bounded by MaxRelaySteps)

vars == <<pc, buf, rcvd, sent, addr, connects, socket, outbound, a2b, b2a, lastItem,
          fromWs, toTcp, fromTcp, tcpBuf, relayOut, suspended, steps>>

relayVars == <<a2b, b2a, lastItem, fromWs, toTcp, fromTcp, tcpBuf, relayOut, suspended, steps>>

(***************************************************************************)
(* Bounds of the model.                                                    *)
(***************************************************************************)
MaxGreetingLen == 3
MaxEnumPayload == 4
MaxPayloadLen == 19
MaxRelaySteps == 2
CopyBufSize == 2

(***************************************************************************)
(* Input alphabets.                                                        *)
(***************************************************************************)
GreetingBytes == {0, 1, 2, 5}
\* 65 = 'A'; 195,169 = the UTF-8 encoding of U+00E9; 169 alone and 195 alone are not UTF-8
PayloadBytes == {0, 1, 65, 169, 195}
ReqVers == {4, 5}
ReqCmds == {1, 2, 3}
ReqAtyps == {1, 2, 3, 4}

SeqsUpTo(S, n) == UNION {[1..k -> S] : k \in 0..n}

Take(s, k) == SubSeq(s, 1, k)

Drop(s, k) == SubSeq(s, k + 1, Len(s))


(***************************************************************************)
(* What socket.recv() / poll_next can yield.  "none" is the closed channel *)
(* (None), "err" is Some(Err(_)), the others are Some(Ok(Message::_)).     *)
(***************************************************************************)
NonBinaryKinds == {"text", "ping", "pong", "close", "err", "none"}

NonBinary(k) == [kind |-> k, data |-> <<>>]

Binary(d) == [kind |-> "binary", data |-> d]

Greetings == SeqsUpTo(GreetingBytes, MaxGreetingLen)

GreetingEvents == {Binary(d) : d \in Greetings} \cup {NonBinary(k) : k \in NonBinaryKinds}

\* A payload of length L: a first byte, then two bytes alternating.
Fill(L, first, a, b) ==
    [i \in 1..L |-> IF i = 1 THEN first ELSE IF i % 2 = 0 THEN a ELSE b]

\* 58 = ':'
FillPatterns == {<<0, 0>>, <<65, 65>>, <<169, 169>>, <<195, 169>>, <<58, 65>>}

\* L - 3 is the name length that makes a domain payload of L bytes well formed
FillFirsts(L) == {0, 65, L - 3, L - 2}

LongPayloads ==
    {Fill(L, f, p[1], p[2]) :
        L \in (MaxEnumPayload + 1)..MaxPayloadLen, f \in 0..MaxPayloadLen, p \in FillPatterns}

Payloads ==
    SeqsUpTo(PayloadBytes, MaxEnumPayload)
    \cup {q \in LongPayloads : q[1] \in FillFirsts(Len(q))}

Headers == {<<v, c, 0, a>> : v \in ReqVers, c \in ReqCmds, a \in ReqAtyps}

\* Requests: every header with every payload, and every proper prefix of a header.
Requests ==
    {h \o q : h \in Headers, q \in Payloads}
    \cup {Take(h, k) : h \in Headers, k \in 0..3}

RequestEvents == {Binary(d) : d \in Requests} \cup {NonBinary(k) : k \in NonBinaryKinds}

(***************************************************************************)
(* The reply messages (byte string literals of handle_socket).             *)
(***************************************************************************)
\* a greeting reply that refuses every method instead of choosing "no authentication"
GreetingReply_NoMethod == <<5, 255>>

GreetingReply == <<5, 0>>

\* the status bytes of the two "unsupported" replies swapped
ReplyCmdUnsupported_AsAtyp == <<5, 8, 0, 1, 0, 0, 0, 0, 0, 0>>

ReplyCmdUnsupported == <<5, 7, 0, 1, 0, 0, 0, 0, 0, 0>>

ReplyAtypUnsupported == <<5, 8, 0, 1, 0, 0, 0, 0, 0, 0>>

\* the connect failure reported with the success status
ReplyConnectFailed_AsSuccess == <<5, 0, 0, 1, 0, 0, 0, 0, 0, 0>>

ReplyConnectFailed == <<5, 1, 0, 1, 0, 0, 0, 0, 0, 0>>

ReplySuccess == <<5, 0, 0, 1, 0, 0, 0, 0, 0, 0>>

(***************************************************************************)
(* Lines 51-54: `1 + 1 + (buf[1] as usize) != buf.len() || buf[0] != 5`.   *)
(* buf[1] is evaluated first: on a message shorter than 2 bytes the index  *)
(* is out of range and the task panics.  (TLA+ sequences are 1-based:      *)
(* Rust's buf[i] is buf[i+1] here.)                                        *)
(***************************************************************************)
CheckGreeting(b) ==
    IF Len(b) < 2 THEN "panic"
    ELSE IF 1 + 1 + b[2] # Len(b) \/ b[1] # 5 THEN "return"
    ELSE "ok"


(***************************************************************************)
(* std::str::from_utf8 (line 121): whether the bytes s[i..] are well       *)
(* formed UTF-8 (Unicode table 3-7: no overlong forms, no surrogates,      *)
(* nothing above U+10FFFF).                                                *)
(***************************************************************************)
IsCont(s, i) == i <= Len(s) /\ s[i] >= 128 /\ s[i] <= 191

InRange(s, i, lo, hi) == i <= Len(s) /\ s[i] >= lo /\ s[i] <= hi

RECURSIVE Utf8From(_, _)
Utf8From(s, i) ==
    IF i > Len(s) THEN TRUE
    ELSE LET c == s[i] IN
         IF c < 128 THEN Utf8From(s, i + 1)
         ELSE IF c >= 194 /\ c <= 223 THEN IsCont(s, i + 1) /\ Utf8From(s, i + 2)
         ELSE IF c = 224 THEN
              InRange(s, i + 1, 160, 191) /\ IsCont(s, i + 2) /\ Utf8From(s, i + 3)
         ELSE IF (c >= 225 /\ c <= 236) \/ c = 238 \/ c = 239 THEN
              IsCont(s, i + 1) /\ IsCont(s, i + 2) /\ Utf8From(s, i + 3)
         ELSE IF c = 237 THEN
              InRange(s, i + 1, 128, 159) /\ IsCont(s, i + 2) /\ Utf8From(s, i + 3)
         ELSE IF c = 240 THEN
              InRange(s, i + 1, 144, 191) /\ IsCont(s, i + 2) /\ IsCont(s, i + 3)
              /\ Utf8From(s, i + 4)
         ELSE IF c >= 241 /\ c <= 243 THEN
              IsCont(s, i + 1) /\ IsCont(s, i + 2) /\ IsCont(s, i + 3)
              /\ Utf8From(s, i + 4)
         ELSE IF c = 244 THEN
              InRange(s, i + 1, 128, 143) /\ IsCont(s, i + 2) /\ IsCont(s, i + 3)
              /\ Utf8From(s, i + 4)
         ELSE FALSE

from_utf8_ok(s) == Utf8From(s, 1)

\* the two bytes taken in little-endian order
read_u16_LittleEndian(hi, lo) == hi + 256 * lo

\* BigEndian::read_u16 and `((hi as u16) << 8) | lo as u16`
read_u16(hi, lo) == 256 * hi + lo

\* u16::to_string: the decimal digits, as ASCII codes
RECURSIVE to_string(_)
to_string(n) ==
    IF n < 10 THEN <<48 + n>> ELSE to_string(n \div 10) \o <<48 + (n % 10)>>

(***************************************************************************)
(* The local `addr`.  For the IP kinds the value is the SocketAddr (the    *)
(* address bytes / 16-bit groups and the port); for a domain it is the     *)
(* string "name:port" the code builds, kept in `text` as bytes.            *)
(***************************************************************************)
NoAddr == [kind |-> "none", host |-> <<>>, port |-> 0, text |-> <<>>]

Ipv4Target(b) ==
    [kind |-> "v4", host |-> <<b[5], b[6], b[7], b[8]>>,
     port |-> read_u16(b[9], b[10]), text |-> <<>>]

Ipv6Target(b) ==
    [kind |-> "v6",
     host |-> [g \in 1..8 |-> read_u16(b[3 + 2 * g], b[4 + 2 * g])],
     port |-> read_u16(b[21], b[22]), text |-> <<>>]

\* offset is Rust's (0-based) `offset`: the name is buf[5..offset], the port buf[offset..]
DomainTarget(b, offset) ==
    LET name == SubSeq(b, 6, offset)
        dst_port == read_u16(b[offset + 1], b[offset + 2])
    IN [kind |-> "domain", host |-> name, port |-> dst_port,
        text |-> name \o <<58>> \o to_string(dst_port)]

(***************************************************************************)
(* Line 155, TcpStream::connect(addr) with addr a String: the text is      *)
(* split at its last ':' into the host and the decimal port (ToSocketAddrs *)
(* for str).                                                               *)
(***************************************************************************)
RECURSIVE ParseDec(_)
ParseDec(ds) ==
    IF ds = <<>> THEN 0 ELSE 10 * ParseDec(SubSeq(ds, 1, Len(ds) - 1)) + (ds[Len(ds)] - 48)

LastColon(t) == CHOOSE i \in 1..Len(t) : t[i] = 58 /\ \A j \in (i + 1)..Len(t) : t[j] # 58

SplitHostPort(t) ==
    LET i == LastColon(t) IN
    [host |-> SubSeq(t, 1, i - 1), port |-> ParseDec(SubSeq(t, i + 1, Len(t)))]

(***************************************************************************)
(* Lines 77-152: the request checks and the address decoding, up to the    *)
(* first await.  The result says what handle_socket does next:             *)
(*   "return"   a silent return             "panic"  the task panics       *)
(*   "reply7"   send command-not-supported  "reply8" send atyp-unsupported *)
(*   "connect"  TcpStream::connect(addr)                                   *)
(***************************************************************************)
Outcome(o, a) == [out |-> o, addr |-> a]

ParseDomain(b) ==
    IF Len(b) < 5 THEN Outcome("panic", NoAddr)                  \* buf[4], line 116
    ELSE LET offset == 4 + 1 + b[5] IN
         IF offset + 2 # Len(b) THEN Outcome("return", NoAddr)
         ELSE IF ~from_utf8_ok(SubSeq(b, 6, offset))
              THEN Outcome("panic", NoAddr)                      \* unwrap(), line 121
         ELSE Outcome("connect", DomainTarget(b, offset))

\* an IPv4 request checked for being long enough, not for its exact length
ParseIpv4_AtLeast(b) ==
    IF Len(b) < 10 THEN Outcome("return", NoAddr)
    ELSE Outcome("connect", Ipv4Target(b))

ParseIpv4(b) ==
    IF Len(b) # 10 THEN Outcome("return", NoAddr)
    ELSE Outcome("connect", Ipv4Target(b))

ParseIpv6(b) ==
    IF Len(b) # 22 THEN Outcome("return", NoAddr)
    ELSE Outcome("connect", Ipv6Target(b))

\* an unknown address type dropped silently, like a malformed address
ParseAddress_SilentOther(b) ==
    LET atyp == b[4] IN
    IF atyp = 1 THEN ParseIpv4(b)
    ELSE IF atyp = 3 THEN ParseDomain(b)
    ELSE IF atyp = 4 THEN ParseIpv6(b)
    ELSE Outcome("return", NoAddr)

ParseAddress(b) ==
    LET atyp == b[4] IN
    IF atyp = 1 THEN ParseIpv4(b)
    ELSE IF atyp = 3 THEN ParseDomain(b)
    ELSE IF atyp = 4 THEN ParseIpv6(b)
    ELSE Outcome("reply8", NoAddr)

\* the command checked before the version
ParseRequest_CmdFirst(b) ==
    IF Len(b) < 4 THEN Outcome("return", NoAddr)
    ELSE LET ver == b[1]
             cmd == b[2]
         IN IF cmd # 1 THEN Outcome("reply7", NoAddr)
            ELSE IF ver # 5 THEN Outcome("return", NoAddr)
            ELSE ParseAddress(b)

ParseRequest(b) ==
    IF Len(b) < 4 THEN Outcome("return", NoAddr)
    ELSE LET ver == b[1]
             cmd == b[2]
         IN IF ver # 5 THEN Outcome("return", NoAddr)
            ELSE IF cmd # 1 THEN Outcome("reply7", NoAddr)
            ELSE ParseAddress(b)


(***************************************************************************)
(* The session.                                                            *)
(***************************************************************************)
Init ==
    /\ pc = "recv_greeting"
    /\ buf = <<>>
    /\ rcvd = <<>>
    /\ sent = <<>>
    /\ addr = NoAddr
    /\ connects = <<>>
    /\ socket = "open"
    /\ outbound = "none"
    /\ a2b = "idle"
    /\ b2a = "idle"
    /\ lastItem = "-"
    /\ fromWs = <<>>
    /\ toTcp = <<>>
    /\ fromTcp = <<>>
    /\ tcpBuf = <<>>
    /\ relayOut = <<>>
    /\ suspended = FALSE
    /\ steps = 0

\* an exit that leaves the TcpStream open
Exit_LeakOutbound(how) ==
    /\ pc' = how
    /\ socket' = "dropped"
    /\ UNCHANGED outbound

\* handle_socket ends: by `return` / falling off the end ("done") or by a panic
\* ("panicked").  Either way its locals, the WebSocket and the TcpStream, are dropped.
Exit(how) ==
    /\ pc' = how
    /\ socket' = "dropped"
    /\ outbound' = IF outbound = "none" THEN "none" ELSE "dropped"

Stay(next) ==
    /\ pc' = next
    /\ UNCHANGED <<socket, outbound>>

Sent(m, ok) == [msg |-> m, ok |-> ok]

\* a first receive that falls through to the reply when the message is not binary
RecvGreeting_FallThrough ==
    /\ pc = "recv_greeting"
    /\ \E ev \in GreetingEvents :
        /\ rcvd' = Append(rcvd, ev.kind)
        /\ IF ev.kind = "binary"
           THEN buf' = ev.data /\ Stay("check_greeting")
           ELSE UNCHANGED buf /\ Stay("send_greeting_reply")
    /\ UNCHANGED <<sent, addr, connects>>
    /\ UNCHANGED relayVars

\* lines 40-49
RecvGreeting ==
    /\ pc = "recv_greeting"
    /\ \E ev \in GreetingEvents :
        /\ rcvd' = Append(rcvd, ev.kind)
        /\ IF ev.kind = "binary"
           THEN buf' = ev.data /\ Stay("check_greeting")
           ELSE UNCHANGED buf /\ Exit("done")
    /\ UNCHANGED <<sent, addr, connects>>
    /\ UNCHANGED relayVars

\* lines 51-54
ValidateGreeting ==
    /\ pc = "check_greeting"
    /\ LET r == CheckGreeting(buf) IN
        IF r = "ok" THEN Stay("send_greeting_reply")
        ELSE IF r = "return" THEN Exit("done")
        ELSE Exit("panicked")
    /\ UNCHANGED <<buf, rcvd, sent, addr, connects>>
    /\ UNCHANGED relayVars

\* lines 56-63
SendGreetingReply ==
    /\ pc = "send_greeting_reply"
    /\ \E ok \in BOOLEAN :
        /\ sent' = Append(sent, Sent(GreetingReply, ok))
        /\ IF ok THEN Stay("recv_request") ELSE Exit("done")
    /\ UNCHANGED <<buf, rcvd, addr, connects>>
    /\ UNCHANGED relayVars

\* lines 66-75
RecvRequest ==
    /\ pc = "recv_request"
    /\ \E ev \in RequestEvents :
        /\ rcvd' = Append(rcvd, ev.kind)
        /\ IF ev.kind = "binary"
           THEN buf' = ev.data /\ Stay("parse_request")
           ELSE UNCHANGED buf /\ Exit("done")
    /\ UNCHANGED <<sent, addr, connects>>
    /\ UNCHANGED relayVars

\* lines 77-152, up to the await that follows
DecodeRequest ==
    /\ pc = "parse_request"
    /\ LET r == ParseRequest(buf) IN
        /\ addr' = r.addr
        /\ IF r.out = "return" THEN Exit("done")
           ELSE IF r.out = "panic" THEN Exit("panicked")
           ELSE IF r.out = "reply7" THEN Stay("send_cmd_unsupported")
           ELSE IF r.out = "reply8" THEN Stay("send_atyp_unsupported")
           ELSE Stay("connect")
    /\ UNCHANGED <<buf, rcvd, sent, connects>>
    /\ UNCHANGED relayVars

\* lines 93-100: `let _ = socket.send(..).await; return;`
SendCmdUnsupported ==
    /\ pc = "send_cmd_unsupported"
    /\ \E ok \in BOOLEAN : sent' = Append(sent, Sent(ReplyCmdUnsupported, ok))
    /\ Exit("done")
    /\ UNCHANGED <<buf, rcvd, addr, connects>>
    /\ UNCHANGED relayVars

\* lines 144-151
SendAtypUnsupported ==
    /\ pc = "send_atyp_unsupported"
    /\ \E ok \in BOOLEAN : sent' = Append(sent, Sent(ReplyAtypUnsupported, ok))
    /\ Exit("done")
    /\ UNCHANGED <<buf, rcvd, addr, connects>>
    /\ UNCHANGED relayVars

\* a connect that is tried again when it fails
Connect_Retry ==
    /\ pc = "connect"
    /\ connects' = Append(connects, addr)
    /\ \E ok \in BOOLEAN :
        IF ok THEN /\ pc' = "send_success"
                   /\ outbound' = "open"
                   /\ UNCHANGED socket
        ELSE Stay("connect")
    /\ UNCHANGED <<buf, rcvd, sent, addr>>
    /\ UNCHANGED relayVars

\* line 155: TcpStream::connect(addr).await
Connect ==
    /\ pc = "connect"
    /\ connects' = Append(connects, addr)
    /\ \E ok \in BOOLEAN :
        IF ok THEN /\ pc' = "send_success"
                   /\ outbound' = "open"
                   /\ UNCHANGED socket
        ELSE Stay("send_connect_failed")
    /\ UNCHANGED <<buf, rcvd, sent, addr>>
    /\ UNCHANGED relayVars

\* lines 157-164
SendConnectFailed ==
    /\ pc = "send_connect_failed"
    /\ \E ok \in BOOLEAN : sent' = Append(sent, Sent(ReplyConnectFailed, ok))
    /\ Exit("done")
    /\ UNCHANGED <<buf, rcvd, addr, connects>>
    /\ UNCHANGED relayVars

\* the success reply with its send result ignored: the relay starts regardless
SendSuccess_IgnoreResult ==
    /\ pc = "send_success"
    /\ \E ok \in BOOLEAN : sent' = Append(sent, Sent(ReplySuccess, ok))
    /\ Stay("relay") /\ a2b' = "running" /\ b2a' = "running"
    /\ UNCHANGED <<buf, rcvd, addr, connects>>
    /\ UNCHANGED <<lastItem, fromWs, toTcp, fromTcp, tcpBuf, relayOut, suspended, steps>>

\* lines 167-180: the success reply; on Ok the relay starts
SendSuccess ==
    /\ pc = "send_success"
    /\ \E ok \in BOOLEAN :
        /\ sent' = Append(sent, Sent(ReplySuccess, ok))
        /\ IF ok
           THEN Stay("relay") /\ a2b' = "running" /\ b2a' = "running"
           ELSE Exit("done") /\ UNCHANGED <<a2b, b2a>>
    /\ UNCHANGED <<buf, rcvd, addr, connects>>
    /\ UNCHANGED <<lastItem, fromWs, toTcp, fromTcp, tcpBuf, relayOut, suspended, steps>>


(***************************************************************************)
(* The adapter (WebSocketConnection) and the relay.                        *)
(***************************************************************************)
\* inbound payloads in the relay: empty, small, and larger than any ReadBuf of the model
RelayPayloads == {<<>>, <<7>>, <<8>>, <<7, 8>>, <<8, 7, 7>>, <<7, 7, 8, 8>>}

RelayEvents == {Binary(d) : d \in RelayPayloads} \cup {NonBinary(k) : k \in NonBinaryKinds}

TcpChunks == {<<7>>, <<8>>, <<7, 8>>}

\* a read that reports the closed channel as a clean end-of-stream (Ok, nothing filled)
poll_read_EofOnClose(ev, remaining) ==
    IF ev.kind = "binary"
    THEN IF Len(ev.data) > remaining
         THEN [res |-> "panic", filled |-> <<>>]
         ELSE [res |-> "ok", filled |-> ev.data]
    ELSE IF ev.kind = "none" THEN [res |-> "ok", filled |-> <<>>]
    ELSE [res |-> "err", filled |-> <<>>]

\* poll_read, lines 187-221, on a ready item `ev` with `remaining` bytes free in the
\* caller's ReadBuf: ReadBuf::put_slice panics when the data does not fit.
poll_read(ev, remaining) ==
    IF ev.kind = "binary"
    THEN IF Len(ev.data) > remaining
         THEN [res |-> "panic", filled |-> <<>>]
         ELSE [res |-> "ok", filled |-> ev.data]
    ELSE [res |-> "err", filled |-> <<>>]

\* a write that finds the sink not ready but queues its message all the same
poll_write_QueuesWhenPending(ready, started, data) ==
    IF ready = "pending" THEN [res |-> "pending", queued |-> <<data>>, n |-> 0]
    ELSE IF ready = "err" THEN [res |-> "err", queued |-> <<>>, n |-> 0]
    ELSE IF started = "err" THEN [res |-> "err", queued |-> <<>>, n |-> 0]
    ELSE [res |-> "ok", queued |-> <<data>>, n |-> Len(data)]

\* poll_write, lines 225-244: `ready` is what poll_ready gave, `started` what start_send gave
poll_write(ready, started, data) ==
    IF ready = "pending" THEN [res |-> "pending", queued |-> <<>>, n |-> 0]
    ELSE IF ready = "err" THEN [res |-> "err", queued |-> <<>>, n |-> 0]
    ELSE IF started = "err" THEN [res |-> "err", queued |-> <<>>, n |-> 0]
    ELSE [res |-> "ok", queued |-> <<data>>, n |-> Len(data)]

\* copy_bidirectional returns Ok once both directions are done
RelayFinished(x, y) == x = "done" /\ y = "done"

\* channel -> TCP: one poll_read of the adapter, then the write of what it delivered
RelayWsRead ==
    /\ pc = "relay"
    /\ a2b = "running"
    /\ steps < MaxRelaySteps
    /\ steps' = steps + 1
    /\ \E ev \in RelayEvents, remaining \in 1..CopyBufSize, wrote \in BOOLEAN :
        LET r == poll_read(ev, remaining) IN
        /\ lastItem' = ev.kind
        /\ fromWs' = IF ev.kind = "binary" THEN Append(fromWs, ev.data) ELSE fromWs
        /\ IF r.res = "panic"
           THEN Exit("panicked") /\ UNCHANGED <<a2b, toTcp>>
           ELSE IF r.res = "err"
           \* the copy returns the read error: copy_bidirectional is over
           THEN Exit("done") /\ a2b' = "failed" /\ UNCHANGED toTcp
           ELSE IF Len(r.filled) = 0
           \* a read that fills nothing is end-of-stream to the copy: the TCP
           \* write half is shut down and this direction is done
           THEN /\ a2b' = "done"
                /\ UNCHANGED toTcp
                /\ IF RelayFinished("done", b2a) THEN Exit("done") ELSE Stay("relay")
           ELSE IF wrote
           THEN toTcp' = toTcp \o r.filled /\ Stay("relay") /\ UNCHANGED a2b
           \* the write to the TcpStream fails
           ELSE Exit("done") /\ a2b' = "failed" /\ UNCHANGED toTcp
    /\ UNCHANGED <<buf, rcvd, sent, addr, connects>>
    /\ UNCHANGED <<b2a, fromTcp, tcpBuf, relayOut, suspended>>

\* TCP -> channel: the TcpStream yields bytes
RelayTcpRead ==
    /\ pc = "relay"
    /\ b2a = "running"
    /\ tcpBuf = <<>>
    /\ steps < MaxRelaySteps
    /\ steps' = steps + 1
    /\ \E d \in TcpChunks :
        /\ tcpBuf' = d
        /\ fromTcp' = fromTcp \o d
    /\ UNCHANGED <<pc, socket, outbound>>
    /\ UNCHANGED <<buf, rcvd, sent, addr, connects>>
    /\ UNCHANGED <<a2b, b2a, lastItem, fromWs, toTcp, relayOut, suspended>>

\* TCP -> channel: one poll_write of the adapter with the bytes read
RelayWsWrite ==
    /\ pc = "relay"
    /\ b2a = "running"
    /\ tcpBuf # <<>>
    /\ \E ready \in {"pending", "ok", "err"}, started \in {"ok", "err"} :
        LET r == poll_write(ready, started, tcpBuf) IN
        /\ relayOut' = relayOut \o r.queued
        /\ IF r.res = "pending"
           THEN suspended' = TRUE /\ Stay("relay") /\ UNCHANGED <<tcpBuf, b2a>>
           ELSE IF r.res = "ok"
           THEN /\ suspended' = FALSE /\ Stay("relay")
                /\ tcpBuf' = Drop(tcpBuf, r.n) /\ UNCHANGED b2a
           ELSE Exit("done") /\ b2a' = "failed" /\ UNCHANGED <<suspended, tcpBuf>>
    /\ UNCHANGED <<buf, rcvd, sent, addr, connects>>
    /\ UNCHANGED <<a2b, lastItem, fromWs, toTcp, fromTcp, steps>>

\* TCP -> channel: the TcpStream is at end-of-stream; the copy shuts the adapter
\* down (poll_shutdown, lines 263-278: poll_close of the WebSocket)
RelayTcpEof ==
    /\ pc = "relay"
    /\ b2a = "running"
    /\ tcpBuf = <<>>
    /\ \E closed \in BOOLEAN :
        IF closed
        THEN /\ b2a' = "done"
             /\ IF RelayFinished(a2b, "done")
                THEN Exit("done")
                ELSE pc' = "relay" /\ socket' = "closed" /\ UNCHANGED outbound
        ELSE Exit("done") /\ b2a' = "failed"
    /\ UNCHANGED <<buf, rcvd, sent, addr, connects>>
    /\ UNCHANGED <<a2b, lastItem, fromWs, toTcp, fromTcp, tcpBuf, relayOut, suspended, steps>>

\* a TCP read error that stops its own direction only
RelayTcpErr_Continues ==
    /\ pc = "relay"
    /\ b2a = "running"
    /\ tcpBuf = <<>>
    /\ Stay("relay")
    /\ b2a' = "failed"
    /\ UNCHANGED <<buf, rcvd, sent, addr, connects>>
    /\ UNCHANGED <<a2b, lastItem, fromWs, toTcp, fromTcp, tcpBuf, relayOut, suspended, steps>>

\* TCP -> channel: the TcpStream read fails; copy_bidirectional returns the error
RelayTcpErr ==
    /\ pc = "relay"
    /\ b2a = "running"
    /\ tcpBuf = <<>>
    /\ Exit("done")
    /\ b2a' = "failed"
    /\ UNCHANGED <<buf, rcvd, sent, addr, connects>>
    /\ UNCHANGED <<a2b, lastItem, fromWs, toTcp, fromTcp, tcpBuf, relayOut, suspended, steps>>

Next ==
    \/ RecvGreeting
    \/ ValidateGreeting
    \/ SendGreetingReply
    \/ RecvRequest
    \/ DecodeRequest
    \/ SendCmdUnsupported
    \/ SendAtypUnsupported
    \/ Connect
    \/ SendConnectFailed
    \/ SendSuccess
    \/ RelayTcpRead
    \/ RelayWsWrite
    \/ RelayTcpEof
    \/ RelayTcpErr
    \/ RelayWsRead

Spec == Init /\ [][Next]_vars


(***************************************************************************)
(* Properties.  The handshake messages are told apart by rcvd: while       *)
(* Len(rcvd) = 1 the local buf holds the first message (or nothing, when   *)
(* the first receive yielded no binary message); once Len(rcvd) = 2 and    *)
(* rcvd[2] = "binary" it holds the request.                                *)
(***************************************************************************)
GreetingIn == Len(rcvd) = 1 /\ rcvd[1] = "binary" /\ pc # "check_greeting"

RequestIn == Len(rcvd) = 2 /\ rcvd[2] = "binary" /\ pc # "parse_request"

\* byte 0 = 5 and length = 2 + byte 1
IsValidGreeting(b) == Len(b) >= 2 /\ b[1] = 5 /\ Len(b) = 2 + b[2]

NoConnection == connects = <<>> /\ outbound = "none"

NoRelay ==
    /\ a2b = "idle" /\ b2a = "idle"
    /\ fromWs = <<>> /\ toTcp = <<>> /\ fromTcp = <<>> /\ relayOut = <<>>

\* the session has returned having sent nothing after the greeting reply
SilentAbortAfterGreeting ==
    pc = "done" /\ Len(sent) = 1 /\ NoConnection /\ NoRelay

\* C1: after a binary first message that is a valid greeting, the first message
\* sent is exactly [5, 0]; when that send succeeded the session waits for the
\* request, and when it failed the session has returned.
C1_GreetingReply ==
    /\ Len(sent) >= 1 => sent[1].msg = <<5, 0>>
    /\ (GreetingIn /\ IsValidGreeting(buf)) =>
        \/ pc = "send_greeting_reply" /\ sent = <<>>
        \/ pc = "recv_request" /\ Len(sent) = 1 /\ sent[1].ok
        \/ pc = "done" /\ Len(sent) = 1 /\ ~sent[1].ok

C1_Witness ==
    /\ GreetingIn /\ IsValidGreeting(buf) /\ Len(buf) = 3
    /\ pc = "recv_request"
    /\ sent = <<[msg |-> <<5, 0>>, ok |-> TRUE]>>

\* C2: after a binary first message of any length that is not a valid greeting,
\* handle_socket has returned, nothing was sent, no second message was received
\* and no connection was attempted.
C2_InvalidGreetingSilent ==
    (GreetingIn /\ ~IsValidGreeting(buf)) =>
        pc = "done" /\ sent = <<>> /\ NoConnection /\ NoRelay

\* C3: after a request with version 5, length >= 4 and a command other than 1,
\* the only message sent after the greeting reply is [5,7,0,1,0,0,0,0,0,0]
\* (nothing is sent before it, and the session returns right after it), no
\* connection is attempted and nothing is relayed.
C3_CmdUnsupported ==
    (RequestIn /\ Len(buf) >= 4 /\ buf[1] = 5 /\ buf[2] # 1) =>
        /\ NoConnection /\ NoRelay
        /\ \/ pc = "send_cmd_unsupported" /\ Len(sent) = 1
           \/ /\ pc = "done" /\ Len(sent) = 2
              /\ sent[2].msg = <<5, 7, 0, 1, 0, 0, 0, 0, 0, 0>>

C3_Witness ==
    /\ RequestIn /\ Len(buf) > 10 /\ buf[1] = 5 /\ buf[2] = 2 /\ buf[4] = 2
    /\ pc = "done"
    /\ Len(sent) = 2 /\ sent[2].msg = <<5, 7, 0, 1, 0, 0, 0, 0, 0, 0>>

\* C4: after a request with version 5, command 1, length >= 4 and an address
\* type other than 1, 3 and 4, the only message sent after the greeting reply is
\* [5,8,0,1,0,0,0,0,0,0], no connection is attempted and nothing is relayed.
C4_AtypUnsupported ==
    (RequestIn /\ Len(buf) >= 4 /\ buf[1] = 5 /\ buf[2] = 1 /\ buf[4] \notin {1, 3, 4}) =>
        /\ NoConnection /\ NoRelay
        /\ \/ pc = "send_atyp_unsupported" /\ Len(sent) = 1
           \/ /\ pc = "done" /\ Len(sent) = 2
              /\ sent[2].msg = <<5, 8, 0, 1, 0, 0, 0, 0, 0, 0>>

C4_Witness ==
    /\ RequestIn /\ Len(buf) = 4 /\ buf[1] = 5 /\ buf[2] = 1 /\ buf[4] = 2
    /\ pc = "done"
    /\ Len(sent) = 2 /\ sent[2].msg = <<5, 8, 0, 1, 0, 0, 0, 0, 0, 0>>


\* a CONNECT request (version 5, command 1) of at least 4 bytes with address type t
ConnectRequest(t) ==
    RequestIn /\ Len(buf) >= 4 /\ buf[1] = 5 /\ buf[2] = 1 /\ buf[4] = t

\* the request went on to the connection phase
Accepted == pc = "connect" \/ Len(connects) = 1

\* the name-length byte exists and the total length is 4 + 1 + n + 2
DomainLengthOk(b) == Len(b) >= 5 /\ Len(b) = 4 + 1 + b[5] + 2

DomainName(b) == SubSeq(b, 6, 5 + b[5])

\* C5: a domain CONNECT request goes on to the connection phase when its total
\* length is 4+1+n+2 (and its name is text), and with every other total length
\* from 4 upward the session returns silently: no reply after the greeting
\* reply, no connection attempt.
C5_DomainLength ==
    ConnectRequest(3) =>
        IF DomainLengthOk(buf)
        THEN from_utf8_ok(DomainName(buf)) => Accepted
        ELSE SilentAbortAfterGreeting

\* C6: a domain CONNECT request of the right length whose name bytes are not
\* valid UTF-8 ends by the silent return: no reply, no connection attempt, no
\* panic.
C6_InvalidUtf8Silent ==
    (ConnectRequest(3) /\ DomainLengthOk(buf) /\ ~from_utf8_ok(DomainName(buf))) =>
        SilentAbortAfterGreeting

\* C7: an IPv4 CONNECT request goes on to the connection phase exactly when its
\* total length is 10, an IPv6 one exactly when it is 22; with every other
\* length >= 4 the session returns silently: no reply after the greeting reply,
\* no connection attempt.
C7_IpLength ==
    /\ ConnectRequest(1) => IF Len(buf) = 10 THEN Accepted ELSE SilentAbortAfterGreeting
    /\ ConnectRequest(4) => IF Len(buf) = 22 THEN Accepted ELSE SilentAbortAfterGreeting

C7_Witness ==
    /\ ConnectRequest(1) /\ Len(buf) = 11
    /\ pc = "done" /\ Len(sent) = 1 /\ connects = <<>>

\* the TCP connection was attempted and could not be opened
ConnectFailed == connects # <<>> /\ outbound = "none"

\* C8: when the connection cannot be opened, the only message sent after the
\* greeting reply is [5,1,0,1,0,0,0,0,0,0]; then the session has returned,
\* whatever the result of that send: one connection attempt, no relay.
C8_ConnectFailure ==
    ConnectFailed =>
        /\ Len(connects) = 1 /\ NoRelay
        /\ \/ pc = "send_connect_failed" /\ Len(sent) = 1
           \/ /\ pc = "done" /\ Len(sent) = 2
              /\ sent[2].msg = <<5, 1, 0, 1, 0, 0, 0, 0, 0, 0>>

C8_Witness ==
    /\ ConnectFailed /\ pc = "done"
    /\ Len(sent) = 2 /\ sent[2] = [msg |-> <<5, 1, 0, 1, 0, 0, 0, 0, 0, 0>>, ok |-> FALSE]

IsSuccessReply(m) == m = <<5, 0, 0, 1, 0, 0, 0, 0, 0, 0>>

\* C9: the relay runs (or has run) only after the success reply was sent with
\* success; the success reply is sent only after the one TCP connection was
\* opened; and when its send failed nothing is ever relayed.
C9_RelayAfterSuccessReply ==
    /\ (pc = "relay" \/ ~NoRelay) =>
            Len(sent) = 2 /\ IsSuccessReply(sent[2].msg) /\ sent[2].ok
    /\ \A i \in 1..Len(sent) :
            IsSuccessReply(sent[i].msg) =>
                /\ i = 2 /\ Len(connects) = 1 /\ outbound # "none"
                /\ ~sent[i].ok => pc = "done" /\ NoRelay

C9_Witness ==
    /\ pc = "relay" /\ Len(sent) = 2 /\ IsSuccessReply(sent[2].msg) /\ sent[2].ok
    /\ toTcp # <<>> /\ relayOut # <<>>

\* C10: when a handshake receive (the first or the second) yields a closed
\* channel, an error or a message that is not binary, the session has returned
\* having sent nothing more (nothing at all in the first step, only the
\* greeting reply in the second) and without a connection attempt.
C10_NonBinarySilent ==
    (rcvd # <<>> /\ rcvd[Len(rcvd)] # "binary") =>
        /\ pc = "done"
        /\ Len(sent) = Len(rcvd) - 1
        /\ NoConnection /\ NoRelay

C10_Witness ==
    /\ Len(rcvd) = 2 /\ rcvd[2] = "close"
    /\ pc = "done" /\ Len(sent) = 1


(***************************************************************************)
(* Properties of the relay.                                                *)
(***************************************************************************)
RECURSIVE Flatten(_)
Flatten(ss) == IF ss = <<>> THEN <<>> ELSE Head(ss) \o Flatten(Tail(ss))

IsPrefix(p, s) == Len(p) <= Len(s) /\ p = SubSeq(s, 1, Len(p))

\* C11: a read of the adapter that receives a binary message succeeds whatever
\* the message length and the room in the caller's buffer (no panic), and the
\* bytes delivered to the TCP side are, in order, the inbound binary payloads:
\* all of them while the relay runs, a prefix of them once it has ended.
C11_ReadDelivers ==
    fromWs # <<>> =>
        /\ pc # "panicked"
        /\ IsPrefix(toTcp, Flatten(fromWs))
        /\ pc = "relay" => toTcp = Flatten(fromWs)

\* C12: a write of the adapter either queues exactly one message, the whole
\* slice it was given, and leaves nothing of the slice to be written again, or
\* queues nothing and keeps the slice (the write failed, or the sink was not
\* ready: the write suspends, the relay goes on); so the messages queued, end to end, are the bytes taken from the
\* TCP side, in order, short only of the slice still waiting to be written.
C12_OneMessagePerWrite ==
    /\ [](fromTcp = Flatten(relayOut) \o tcpBuf)
    /\ [](\A i \in 1..Len(relayOut) : relayOut[i] # <<>>)
    /\ [][(pc = "relay" /\ tcpBuf # <<>>) =>
             \/ /\ relayOut' = Append(relayOut, tcpBuf)
                /\ tcpBuf' = <<>> /\ ~suspended' /\ pc' = "relay"
             \/ relayOut' = relayOut /\ tcpBuf' = tcpBuf]_vars
    /\ [][(suspended' /\ ~suspended) =>
             relayOut' = relayOut /\ tcpBuf' = tcpBuf /\ pc' = "relay"]_vars

C12_Witness ==
    /\ pc = "relay" /\ suspended
    /\ relayOut = <<<<7, 8>>>> /\ tcpBuf = <<7>> /\ fromTcp = <<7, 8, 7>>


\* handle_socket is over and holds neither the WebSocket nor the TcpStream any more
Released == socket = "dropped" /\ outbound # "open"

Terminated == pc \in {"done", "panicked"} /\ Released

Ended(d) == d \in {"done", "failed"}

C14_ClosureIsError ==
    /\ lastItem \in NonBinaryKinds => a2b = "failed" /\ pc = "done" /\ Released
    /\ a2b = "done" => lastItem = "binary"

C14_Witness ==
    /\ lastItem = "none" /\ a2b = "failed" /\ pc = "done"
    /\ fromWs = <<<<7>>>> /\ toTcp = <<7>>


(***************************************************************************)
(* Properties of the decoded target.                                       *)
(***************************************************************************)
IsByte(x) == x \in 0..255

IsU16(x) == x \in 0..65535

\* the TargetAddress invariant: a 16-bit port; an IPv4 address of 4 bytes, an
\* IPv6 address of 8 groups, or a non-empty domain name of at most 255 bytes of UTF-8
TargetOk(t) ==
    /\ IsU16(t.port)
    /\ \/ t.kind = "v4" /\ Len(t.host) = 4 /\ \A i \in 1..4 : IsByte(t.host[i])
       \/ t.kind = "v6" /\ Len(t.host) = 8 /\ \A i \in 1..8 : IsU16(t.host[i])
       \/ /\ t.kind = "domain"
          /\ t.host # <<>> /\ Len(t.host) <= 255 /\ from_utf8_ok(t.host)

\* C15: every target a connection is attempted to satisfies the TargetAddress
\* invariant; in particular a domain name is never empty.
C15_TargetInvariant ==
    \A i \in 1..Len(connects) : TargetOk(connects[i])

\* the two bytes of a 16-bit value, high byte first
U16Bytes(x) == <<x \div 256, x % 256>>

\* the CONNECT request that encodes target t
EncodeTarget(t) ==
    IF t.kind = "v4" THEN <<5, 1, 0, 1>> \o t.host \o U16Bytes(t.port)
    ELSE IF t.kind = "v6"
    THEN <<5, 1, 0, 4>> \o Flatten([g \in 1..8 |-> U16Bytes(t.host[g])]) \o U16Bytes(t.port)
    ELSE <<5, 1, 0, 3, Len(t.host)>> \o t.host \o U16Bytes(t.port)

\* t is the address that request b encodes
Encodes(b, t) ==
    IF b[4] = 1
    THEN /\ t.kind = "v4"
         /\ t.host = SubSeq(b, 5, 8)
         /\ t.port = 256 * b[9] + b[10]
    ELSE IF b[4] = 4
    THEN /\ t.kind = "v6"
         /\ Len(t.host) = 8
         /\ \A g \in 1..8 : t.host[g] = 256 * b[2 * g + 3] + b[2 * g + 4]
         /\ t.port = 256 * b[21] + b[22]
    ELSE /\ b[4] = 3
         /\ t.kind = "domain"
         /\ t.host = SubSeq(b, 6, 5 + b[5])
         /\ t.port = 256 * b[Len(b) - 1] + b[Len(b)]
         \* what connect makes of the string it is given
         /\ SplitHostPort(t.text) = [host |-> t.host, port |-> t.port]

\* C16: the target handed to the connect step is the address the request
\* encodes (IPv4: bytes 4..7 and the big-endian port of bytes 8..9; IPv6: bytes
\* 4..19 as eight big-endian groups and the port of bytes 20..21; domain: the n
\* name bytes and the big-endian port of the last two bytes), and decoding the
\* request that encodes this target gives the same target again.
C16_TargetDecoded ==
    /\ connects # <<>> => connects = <<addr>>
    /\ (pc = "connect" \/ connects # <<>>) =>
            /\ Encodes(buf, addr)
            /\ ParseRequest(EncodeTarget(addr)) = Outcome("connect", addr)

C16_Witness ==
    /\ Len(connects) = 1 /\ connects[1].kind = "domain"
    /\ \E i \in 1..Len(connects[1].host) : connects[1].host[i] = 58
    /\ Len(connects[1].host) > 2
    /\ connects[1].port = 256 * 58 + 65


(***************************************************************************)
(* Properties of the session as a whole.                                   *)
(***************************************************************************)
\* C17: a session that has ended (by a return or by a panic) holds neither the
\* channel nor an open TCP connection, on every exit path after the connection
\* was opened; the connection is open only between the connect and the exit.
C17_Released ==
    /\ pc \in {"done", "panicked"} => socket = "dropped" /\ outbound # "open"
    /\ outbound = "open" => pc \in {"send_success", "relay"}
    /\ outbound = "dropped" => pc \in {"done", "panicked"} /\ socket = "dropped"

\* the success reply could not be sent: the session returned with the connection released
C17_Witness ==
    /\ pc = "done" /\ outbound = "dropped" /\ socket = "dropped"
    /\ Len(sent) = 2 /\ IsSuccessReply(sent[2].msg) /\ ~sent[2].ok

\* the request passed the checks of the handshake: version 5, command 1, a known
\* address type and the length that goes with it
WellFormedConnect(b) ==
    /\ Len(b) >= 4 /\ b[1] = 5 /\ b[2] = 1
    /\ \/ b[4] = 1 /\ Len(b) = 10
       \/ b[4] = 4 /\ Len(b) = 22
       \/ b[4] = 3 /\ DomainLengthOk(b) /\ from_utf8_ok(DomainName(b))

Rank(p) ==
    CASE p = "recv_greeting" -> 0
      [] p = "check_greeting" -> 1
      [] p = "send_greeting_reply" -> 2
      [] p = "recv_request" -> 3
      [] p = "parse_request" -> 4
      [] p \in {"send_cmd_unsupported", "send_atyp_unsupported", "connect"} -> 5
      [] p \in {"send_connect_failed", "send_success"} -> 6
      [] p = "relay" -> 7
      [] p \in {"done", "panicked"} -> 8

\* C18: the handshake goes forward only (greeting, then request, then the end or
\* the relay); it consumes one message as the greeting and at most one as the
\* request, exactly two before the relay; it sends at most the greeting reply
\* and then at most one 10-byte status reply, the latter only after the former
\* was sent; and it makes at most one connection attempt, only after the
\* greeting reply was sent and a well-formed CONNECT request was received.
C18_HandshakeOnce ==
    /\ [][Rank(pc') >= Rank(pc)]_vars
    /\ [](Len(rcvd) <= 2 /\ Len(sent) <= 2 /\ Len(connects) <= 1)
    /\ [](pc = "recv_greeting" => rcvd = <<>> /\ sent = <<>>)
    /\ [](pc = "recv_request" => Len(rcvd) = 1 /\ Len(sent) = 1)
    /\ [](Len(sent) >= 1 =>
            Len(sent[1].msg) = 2 /\ Len(rcvd) >= 1 /\ rcvd[1] = "binary")
    /\ [](Len(sent) = 2 =>
            /\ Len(sent[2].msg) = 10 /\ sent[1].ok
            /\ Len(rcvd) = 2 /\ rcvd[2] = "binary")
    /\ []((pc = "relay" \/ a2b # "idle") => Len(rcvd) = 2 /\ Len(sent) = 2)
    /\ [](connects # <<>> =>
            /\ Len(sent) >= 1 /\ sent[1].ok
            /\ Len(rcvd) = 2 /\ rcvd[2] = "binary"
            /\ WellFormedConnect(buf))

C18_Witness ==
    /\ pc = "relay" /\ steps = MaxRelaySteps
    /\ Len(rcvd) = 2 /\ Len(sent) = 2 /\ Len(connects) = 1
    /\ buf[4] = 4

\* C19: a request shorter than 4 bytes, or of another version than 5, ends in
\* the silent return whatever its command and address type are; a request of
\* version 5 with a command other than 1 gets the reply with status 7 (never
\* status 8, never a silent return, never a panic) whatever its address type
\* and the length of its address field are.
C19_CheckOrder ==
    /\ (RequestIn /\ (Len(buf) < 4 \/ buf[1] # 5)) => SilentAbortAfterGreeting
    /\ (RequestIn /\ Len(buf) >= 4 /\ buf[1] = 5 /\ buf[2] # 1) =>
            /\ pc \in {"send_cmd_unsupported", "done"}
            /\ pc = "done" => Len(sent) = 2 /\ sent[2].msg[2] = 7

C19_Witness ==
    /\ RequestIn /\ Len(buf) = 4 /\ buf[1] = 4 /\ buf[2] = 2 /\ buf[4] = 2
    /\ pc = "done" /\ Len(sent) = 1

\* C20: the channel -> TCP direction never comes to a clean end-of-stream: a
\* binary message, of any length, does not end it, and a closed channel, a
\* receive error or another kind of message end it as an error.
C20_BinaryNeverEnds ==
    a2b # "done"

====
